---- MODULE Spec2Model ----
(***************************************************************************)
(* Model of the token-optimizer optimization pipeline:                     *)
(*   optimize()          src/proxy.ts:78-104                               *)
(*   heuristics          src/proxy.ts:142-186                              *)
(*   CacheManager        src/proxy.ts:195-216                              *)
(*   budget_select       src/proxy.ts:285-310                              *)
(*   compress_block      src/proxy.ts:331-350                              *)
(*   validate            src/proxy.ts:381-406                              *)
(*   apply_fallback      src/proxy.ts:408-436                              *)
(* Contents are abstract texts with a form; token counts are a function of *)
(* the content, as count_tokens is.                                        *)
(* The callers of a behaviour pass one Config object, which Fallback 2     *)
(* updates in place; block ids are drawn per run.                          *)
(* Left out: tool schemas (tools_enabled is FALSE), the expiry of cache     *)
(* entries (runs follow each other within the TTL), and MMR (budget_select *)
(* sorts its candidates again).                                            *)
(***************************************************************************)
EXTENDS Integers, Sequences, FiniteSets, TLC

\* ------------------------------------------------------------ bounds
\* Old conversation turns (user + assistant) before the latest user message.
MaxTurns == 2
\* Retrieved documents attached to a request.
MaxDocs == 2
\* Concurrent or successive callers of optimize() with the same request.
NumRuns == 2

RunIds == 1..NumRuns

\* ------------------------------------------------------------ contents
\* A content is a text in one of four forms: "raw" (as received), "toon"
\* (JSON rewritten by compress_json_toon), "lingua" (compressor output that
\* is shorter) and "padded" (compressor output that is not shorter).
Txt(t) == [text |-> t, form |-> "raw"]

DocNames == <<"DOC1", "DOC2", "DOC3", "DOC4">>

\* Token count of the raw text.
RawTokens(t) ==
  CASE t = "SYS"   -> 10
    [] t = "RULES" -> 10
    [] t = "MUST"  -> 4
    [] t = "Q"     -> 8
    [] t = "QBIG"  -> 30
    [] t = "JSON"  -> 30
    [] t = "HELLO" -> 6
    [] t = "SURE"  -> 5
    [] t = "ANS"   -> 40
    [] t = "You are helpful."  -> 4
    [] t = "Hello"             -> 1
    [] t = "Sure, I can help." -> 6
    [] t = "Of course!"        -> 3
    [] t = "What is Python?"   -> 4
    [] t = "S5 system"         -> 5
    [] t = "The API returns 200 on success, 404 on not found, and 500 on error." -> 40
    [] OTHER       -> 20

\* count_tokens: the token count is a function of the content alone.
count_tokens(c) ==
  CASE c.form = "raw"    -> RawTokens(c.text)
    [] c.form = "toon"   -> (RawTokens(c.text) * 2) \div 5
    [] c.form = "lingua" -> (RawTokens(c.text) + 1) \div 2
    [] OTHER             -> RawTokens(c.text) + 1

\* A JSON array of uniform objects longer than json_truncate_chars.
IsJsonArray(c) == c.form = "raw" /\ c.text = "JSON"

\* A text as the pieces a pattern can tell apart; the abstract texts are one
\* piece each, "SURE" is the reply "Sure.".
Pieces(t) ==
  CASE t = "SURE"              -> <<"Sure", ".">>
    [] t = "Sure, I can help." -> <<"Sure", ",", " ", "I can help", ".">>
    [] t = "Of course!"        -> <<"Of course", "!">>
    [] OTHER                   -> <<t>>

\* The elements of a pattern: a literal, .*, \s* and $.
Lit(s) == [k |-> "lit", s |-> s]
DotStar == [k |-> "any", s |-> <<>>]
Ws     == [k |-> "ws", s |-> <<>>]
End    == [k |-> "end", s |-> <<>>]

\* re.match of the elements pat against the pieces s, from the start of s.
RECURSIVE MatchAt(_, _)
MatchAt(pat, s) ==
  IF pat = <<>> THEN TRUE
  ELSE LET e == Head(pat)
           From(k) == SubSeq(s, k + 1, Len(s))
       IN CASE e.k = "lit" ->
                 /\ Len(e.s) <= Len(s)
                 /\ SubSeq(s, 1, Len(e.s)) = e.s
                 /\ MatchAt(Tail(pat), From(Len(e.s)))
            [] e.k = "any" ->
                 \E k \in 0..Len(s) : MatchAt(Tail(pat), From(k))
            [] e.k = "ws" ->
                 \E k \in 0..Len(s) :
                   (\A i \in 1..k : s[i] = " ") /\ MatchAt(Tail(pat), From(k))
            [] OTHER -> s = <<>> /\ MatchAt(Tail(pat), s)

\* The pattern lists, each alternative written out: the default
\* junk_regexes, ^\s*$ and ^(Sure\.|Of course\.|I can help.*)$; the list
\* of scenario S1, ^(Sure|Of course)\. ; the list of test_junk_removal,
\* ^\s*$ and ^Sure.*$.
junk_regexes(name) ==
  CASE name = "default" ->
         {<<Ws, End>>, <<Lit(<<"Sure", ".">>), End>>,
          <<Lit(<<"Of course", ".">>), End>>, <<Lit(<<"I can help">>), DotStar, End>>}
    [] name = "S1" ->
         {<<Lit(<<"Sure">>), Lit(<<".">>)>>, <<Lit(<<"Of course">>), Lit(<<".">>)>>}
    [] OTHER ->
         {<<Ws, End>>, <<Lit(<<"Sure">>), DotStar, End>>}

Matches(c, patterns) == \E pat \in patterns : MatchAt(pat, Pieces(c.text))

\* Matches one of the default junk_regexes.
IsJunk(c) == Matches(c, junk_regexes("default"))

\* The lines of a content that hold a constraint keyword (MUST, NEVER, ...).
HasKeywords(c) == c.text = "RULES"

\* fingerprint = sha256(normalize(content)): equal contents, equal digests.
fingerprint(c) == c

\* ------------------------------------------------------------ sequences
RECURSIVE SumTokens(_)
SumTokens(s) == IF s = <<>> THEN 0 ELSE Head(s).tokens + SumTokens(Tail(s))

total_tokens(blocks) == SumTokens(blocks)

Range(s) == {s[i] : i \in 1..Len(s)}

\* ------------------------------------------------------------ requests
SysKinds  == {"none", "SYS", "RULES"}
UserKinds == {"Q", "QBIG", "JSON"}

Requests ==
  [sys : SysKinds, turns : 0..MaxTurns, docs : 0..MaxDocs, user : UserKinds]

Msg(role, t) == [role |-> role, content |-> Txt(t)]

\* Old turn k of n: the user greets, the assistant answers with boilerplate
\* except in the most recent old turn.
RECURSIVE OldTurns(_, _)
OldTurns(k, n) ==
  IF k = 0 THEN <<>>
  ELSE OldTurns(k - 1, n) \o
       <<Msg("user", "HELLO"), Msg("assistant", IF k = n THEN "ANS" ELSE "SURE")>>

RECURSIVE DocMsgs(_)
DocMsgs(n) ==
  IF n = 0 THEN <<>> ELSE DocMsgs(n - 1) \o <<Msg("doc", DocNames[n])>>

\* Scenario S1, the conversation with a repeated greeting and boilerplate
\* replies, and scenario S5, a system message and one long assistant message.
S1Request == [sys |-> "S1", turns |-> 2, docs |-> 0, user |-> "S1"]
S5Request == [sys |-> "S5", turns |-> 0, docs |-> 0, user |-> "S5"]

S1Messages ==
  <<Msg("system", "You are helpful."), Msg("user", "Hello"),
    Msg("assistant", "Sure, I can help."), Msg("user", "Hello"),
    Msg("assistant", "Of course!"), Msg("user", "What is Python?")>>

S5Messages ==
  <<Msg("system", "S5 system"),
    Msg("assistant",
        "The API returns 200 on success, 404 on not found, and 500 on error.")>>

\* The ordered messages of a request: system, old turns, the latest user
\* message, then the retrieved docs.
Messages(req) ==
  IF req = S1Request THEN S1Messages
  ELSE IF req = S5Request THEN S5Messages
  ELSE
  (IF req.sys = "none" THEN <<>> ELSE <<Msg("system", req.sys)>>)
  \o OldTurns(req.turns, req.turns) \o <<Msg("user", req.user)>>
  \o DocMsgs(req.docs)

\* ------------------------------------------------------------ Block IR
NoContent == [text |-> "", form |-> "raw"]

Block(i, type, c, keep) ==
  [id |-> i, type |-> type, content |-> c, tokens |-> count_tokens(c),
   must_keep |-> keep, timestamp |-> i, compressed |-> FALSE,
   original_content |-> NoContent]

\* Position of the most recent user message (0 if there is none).
LastUser(msgs) ==
  LET us == {i \in 1..Len(msgs) : msgs[i].role = "user"}
  IN IF us = {} THEN 0 ELSE CHOOSE i \in us : \A j \in us : j <= i

\* Stage 0: messages -> blocks, in input order, with increasing timestamps;
\* system, developer and constraint blocks and the latest user block are
\* must_keep.
canonicalize(msgs) ==
  [i \in 1..Len(msgs) |->
     Block(i, msgs[i].role, msgs[i].content,
           msgs[i].role \in {"system", "developer", "constraint"}
             \/ i = LastUser(msgs))]

\* id: a UUID drawn when the block is made, so the ids of one run are in
\* no fixed order to those of another: here they follow the input order in
\* the odd runs and go against it in the even ones.
uuid(r, i) == IF r % 2 = 1 THEN i ELSE 100 - i

fresh_ids(blocks, r) ==
  [i \in 1..Len(blocks) |-> [blocks[i] EXCEPT !.id = uuid(r, i)]]

\* ------------------------------------------------------------ heuristics
Keep(blocks, ids) ==
  SelectSeq(blocks, LAMBDA b : b.id \in ids)

\* Conversation turns: a user block directly followed by an assistant block
\* in the user/assistant subsequence.
RECURSIVE Pairs(_)
Pairs(ua) ==
  IF Len(ua) < 2 THEN <<>>
  ELSE IF ua[1].type = "user" /\ ua[2].type = "assistant"
       THEN <<{ua[1].id, ua[2].id}>> \o Pairs(Tail(Tail(ua)))
       ELSE Pairs(Tail(ua))

\* The ids of the blocks in the last n turns.
LastTurnIds(blocks, n) ==
  LET ps == Pairs(SelectSeq(blocks, LAMBDA b : b.type \in {"user", "assistant"}))
      lo == IF n >= Len(ps) THEN 1 ELSE Len(ps) - n + 1
  IN UNION {ps[i] : i \in lo..Len(ps)}

\* remove_junk: drop assistant blocks older than the last n turns whose
\* content is empty or matches a junk pattern.
remove_junk(blocks, patterns, n) ==
  LET recent == LastTurnIds(blocks, n)
  IN SelectSeq(blocks, LAMBDA b :
       ~(b.type = "assistant" /\ ~b.must_keep /\ b.id \notin recent
         /\ Matches(b.content, patterns)))

\* Deduplication that keeps the first block of a group, not the latest.
deduplicate_keeps_first(blocks) ==
  SelectSeq(blocks, LAMBDA b :
    \A o \in Range(blocks) :
      fingerprint(o.content) = fingerprint(b.content) => b.timestamp <= o.timestamp)

\* deduplicate: group by fingerprint, keep the block with max(timestamp).
deduplicate(blocks) ==
  SelectSeq(blocks, LAMBDA b :
    \A o \in Range(blocks) :
      fingerprint(o.content) = fingerprint(b.content) => o.timestamp <= b.timestamp)

\* compress_json_toon: a JSON array of uniform objects becomes a table.
compress_json_toon(c) ==
  IF IsJsonArray(c) THEN [c EXCEPT !.form = "toon"] ELSE c

\* JSON/TOON compaction over the block list: any block whose content is such
\* an array is rewritten, and its token count recomputed.
compact_json(blocks) ==
  [i \in 1..Len(blocks) |->
     LET c == compress_json_toon(blocks[i].content)
     IN [blocks[i] EXCEPT !.content = c, !.tokens = count_tokens(c)]]

\* keep_last_n_turns: mark the blocks of the last n turns must_keep.
keep_last_n_turns(blocks, n) ==
  LET recent == LastTurnIds(blocks, n)
  IN [i \in 1..Len(blocks) |->
        IF blocks[i].id \in recent
        THEN [blocks[i] EXCEPT !.must_keep = TRUE] ELSE blocks[i]]

\* Position of the last system block (0 if there is none).
LastSystem(blocks) ==
  LET ss == {i \in 1..Len(blocks) : blocks[i].type = "system"}
  IN IF ss = {} THEN 0 ELSE CHOOSE i \in ss : \A j \in ss : j <= i

\* Constraint extraction that takes every system block to hold a directive.
extract_constraints_always(blocks) ==
  IF \E b \in Range(blocks) :
       b.type = "system"
         \/ (b.type \in {"developer", "user"} /\ HasKeywords(b.content))
  THEN <<Block(0, "constraint", Txt("MUST"), TRUE)>>
  ELSE <<>>

\* Constraint extraction that leaves must_keep at the Block default.
extract_constraints_unmarked(blocks) ==
  IF \E b \in Range(blocks) :
       b.type \in {"system", "developer", "user"} /\ HasKeywords(b.content)
  THEN <<Block(0, "constraint", Txt("MUST"), FALSE)>>
  ELSE <<>>

\* extract_constraints: the keyword lines of system, developer and user blocks
\* in one new must_keep constraint block, or nothing when no line matches.
extract_constraints(blocks) ==
  IF \E b \in Range(blocks) :
       b.type \in {"system", "developer", "user"} /\ HasKeywords(b.content)
  THEN <<Block(0, "constraint", Txt("MUST"), TRUE)>>
  ELSE <<>>

\* The constraint block goes right after the last system block.
insert_constraints(blocks) ==
  LET k == LastSystem(blocks)
  IN SubSeq(blocks, 1, k) \o extract_constraints(blocks)
     \o SubSeq(blocks, k + 1, Len(blocks))

\* Stage 1: the heuristics in their fixed order.
apply_heuristics(blocks, config) ==
  insert_constraints(
    keep_last_n_turns(
      compact_json(deduplicate(remove_junk(blocks, junk_regexes(config.junk_regexes),
                                            config.keep_last_n_turns))),
      config.keep_last_n_turns))

\* ------------------------------------------------------------ semantic stage
\* Cosine similarity to the query, in tenths.
Sim(c) ==
  CASE c.text = "DOC1"  -> 9
    [] c.text = "DOC2"  -> 9
    [] c.text = "ANS"   -> 5
    [] c.text = "HELLO" -> 2
    [] OTHER            -> 3

\* recency_boost: decays with the distance to the newest block, in tenths.
recency_boost(ts, newest) ==
  IF newest - ts <= 1 THEN 10 ELSE IF newest - ts <= 3 THEN 6 ELSE 3

\* compute_utility_score, in thousandths: the six weighted factors.
compute_utility_score(b, newest) ==
  40 * Sim(b.content)
  + 20 * recency_boost(b.timestamp, newest)
  + 15 * (IF HasKeywords(b.content) THEN 10 ELSE 0)
  + 10 * (IF b.content.text = "ANS" THEN 6 ELSE 0)
  + 10 * 5
  + 5 * 0

Newest(blocks) ==
  IF blocks = <<>> THEN 0
  ELSE CHOOSE t \in {b.timestamp : b \in Range(blocks)} :
         \A b \in Range(blocks) : b.timestamp <= t

\* The two per-type fraction tables of the repository, in tenths:
\* OptimizerConfig.per_type_budget_fraction and the deployed allocation.
Fractions(name) ==
  IF name = "chat"
  THEN [doc |-> 4, chat |-> 3, tool |-> 2, assistant |-> 1]
  ELSE [doc |-> 4, assistant |-> 3, tool |-> 2, user |-> 1]

\* The sort with equal ratios ordered by id: a block goes after the blocks of
\* a greater ratio and after those of its own ratio with a smaller id.
RECURSIVE SortByRatio_then_id(_, _)
SortByRatio_then_id(s, newest) ==
  IF s = <<>> THEN <<>>
  ELSE LET rest == SortByRatio_then_id(SubSeq(s, 1, Len(s) - 1), newest)
           b    == s[Len(s)]
           ub   == compute_utility_score(b, newest)
           ahead == {i \in 1..Len(rest) :
                       LET ui == compute_utility_score(rest[i], newest)
                       IN \/ ui * b.tokens > ub * rest[i].tokens
                          \/ /\ ui * b.tokens = ub * rest[i].tokens
                             /\ rest[i].id < b.id}
           k    == IF ahead = {} THEN 0
                   ELSE CHOOSE i \in ahead : \A j \in ahead : j <= i
       IN SubSeq(rest, 1, k) \o <<b>> \o SubSeq(rest, k + 1, Len(rest))

\* remaining.sort(key=utility/tokens, reverse=True): a stable sort, so a block
\* goes after every block whose ratio is at least its own.
RECURSIVE SortByRatio(_, _)
SortByRatio(s, newest) ==
  IF s = <<>> THEN <<>>
  ELSE LET rest == SortByRatio(SubSeq(s, 1, Len(s) - 1), newest)
           b    == s[Len(s)]
           ub   == compute_utility_score(b, newest)
           ahead == {i \in 1..Len(rest) :
                       compute_utility_score(rest[i], newest) * b.tokens
                         >= ub * rest[i].tokens}
           k    == IF ahead = {} THEN 0
                   ELSE CHOOSE i \in ahead : \A j \in ahead : j <= i
       IN SubSeq(rest, 1, k) \o <<b>> \o SubSeq(rest, k + 1, Len(rest))

\* The greedy loop with the type's budget left as it was after a selection.
RECURSIVE Greedy_no_debit(_, _)
Greedy_no_debit(remaining, acc) ==
  IF remaining = <<>> \/ acc.raised THEN acc
  ELSE LET b == Head(remaining)
       IN IF b.type \notin DOMAIN acc.type_budgets
          THEN [acc EXCEPT !.raised = TRUE]
          ELSE IF acc.type_budgets[b.type] >= 10 * b.tokens
               THEN Greedy_no_debit(Tail(remaining),
                      [acc EXCEPT !.selected = @ \o <<b>>])
               ELSE Greedy_no_debit(Tail(remaining), acc)

\* The greedy loop of budget_select over the sorted candidates: acc holds the
\* selected blocks, the per-type budgets left (in tenths of a token) and
\* whether type_budgets[block.type] raised KeyError.
RECURSIVE Greedy(_, _)
Greedy(remaining, acc) ==
  IF remaining = <<>> \/ acc.raised THEN acc
  ELSE LET b == Head(remaining)
       IN IF b.type \notin DOMAIN acc.type_budgets
          THEN [acc EXCEPT !.raised = TRUE]
          ELSE IF acc.type_budgets[b.type] >= 10 * b.tokens
               THEN Greedy(Tail(remaining),
                      [acc EXCEPT !.selected = @ \o <<b>>,
                                  !.type_budgets[b.type] = @ - 10 * b.tokens])
               ELSE Greedy(Tail(remaining), acc)

\* budget_select: the must_keep blocks, then the candidates that fit their
\* type's share of what the must_keep blocks leave.
budget_select(blocks, max_tokens, safety_margin, per_type_fractions) ==
  LET selected == SelectSeq(blocks, LAMBDA b : b.must_keep)
      budget   == max_tokens - safety_margin - total_tokens(selected)
      type_budgets ==
        [t \in DOMAIN per_type_fractions |-> budget * per_type_fractions[t]]
      remaining ==
        SortByRatio(SelectSeq(blocks, LAMBDA b : ~b.must_keep), Newest(blocks))
  IN Greedy(remaining,
       [selected |-> selected, type_budgets |-> type_budgets, raised |-> FALSE])

\* ------------------------------------------------------------ compression
\* What the compressor returns for a run: "ok" a shorter, faithful text;
\* "low" a text scoring under faithfulness_threshold; "pad" a faithful text
\* that is not shorter; "down" no compressor at all.
Compressors == {"ok", "low", "pad", "down"}

\* compress_block: the candidate replaces the content unless its faithfulness
\* score is under the threshold.
compress_block(b, compressor) ==
  IF compressor = "low" THEN b
  ELSE LET c == [b.content EXCEPT !.form = IF compressor = "ok" THEN "lingua" ELSE "padded"]
       IN [b EXCEPT !.original_content = b.content, !.content = c,
                    !.tokens = count_tokens(c), !.compressed = TRUE]

\* Stage 4 over the block list: every block that is neither must_keep nor
\* already compressed goes through compress_block.
compress_blocks(blocks, compressor) ==
  [i \in 1..Len(blocks) |->
     IF blocks[i].must_keep \/ blocks[i].compressed \/ blocks[i].content.form # "raw"
     THEN blocks[i] ELSE compress_block(blocks[i], compressor)]

\* ------------------------------------------------------------ validation
HasType(blocks, t) == \E b \in Range(blocks) : b.type = t

\* validate: the five checks; the result is the set of failed checks.
validate(blocks, config) ==
  (IF ~HasType(blocks, "system") THEN {"system"} ELSE {})
  \cup (IF ~HasType(blocks, "user") THEN {"user"} ELSE {})
  \cup (IF config.had_constraints /\ ~HasType(blocks, "constraint")
        THEN {"constraints"} ELSE {})
  \cup (IF config.tools_enabled /\ ~HasType(blocks, "tool") THEN {"tools"} ELSE {})
  \cup (IF total_tokens(blocks) > config.max_input_tokens THEN {"budget"} ELSE {})

\* Fallback 1: the compressed blocks are replaced by their originals, after
\* the blocks that were not compressed.
undo_compression(blocks) ==
  SelectSeq(blocks, LAMBDA b : ~b.compressed)
  \o [i \in 1..Len(SelectSeq(blocks, LAMBDA b : b.compressed)) |->
       LET b == SelectSeq(blocks, LAMBDA x : x.compressed)[i]
       IN [b EXCEPT !.content = b.original_content,
                    !.tokens = count_tokens(b.original_content),
                    !.compressed = FALSE, !.original_content = NoContent]]

\* A minimal prompt that leaves the system blocks out.
minimal_safe_no_system(blocks, config) ==
  SelectSeq(blocks, LAMBDA b : b.type \in {"developer", "user", "constraint"})
  \o (IF config.tools_enabled
      THEN SubSeq(SelectSeq(blocks, LAMBDA b : b.type = "tool"), 1,
                  IF HasType(blocks, "tool") THEN 1 ELSE 0)
      ELSE <<>>)

\* Fallback 3: the minimal safe prompt.
minimal_safe(blocks, config) ==
  SelectSeq(blocks, LAMBDA b : b.type \in {"system", "developer", "user", "constraint"})
  \o (IF config.tools_enabled
      THEN SubSeq(SelectSeq(blocks, LAMBDA b : b.type = "tool"), 1,
                  IF HasType(blocks, "tool") THEN 1 ELSE 0)
      ELSE <<>>)

\* ------------------------------------------------------------ stages
\* The services a run finds: the embedding service and vector store up or
\* down, and what the compressor does.
Envs == [embedding_up : BOOLEAN, compressor : Compressors]

\* A stage's result: the blocks, whether an exception escaped, and the stages
\* skipped because their service was unavailable.
Result(blocks, raised, degraded) ==
  [blocks |-> blocks, raised |-> raised, degraded |-> degraded]

\* The selector with no handler around the embedding call: the service's
\* error escapes the stage.
semantic_reduce_raises(blocks, config, env) ==
  IF ~env.embedding_up THEN Result(blocks, TRUE, {})
  ELSE LET res == budget_select(blocks, config.max_input_tokens,
                                config.safety_margin_tokens,
                                Fractions(config.per_type_budget_fraction))
       IN Result(res.selected, res.raised, {})

\* The selector's result appended to the block list instead of replacing it.
semantic_reduce_appends(blocks, config, env) ==
  IF ~env.embedding_up THEN Result(blocks, FALSE, {"semantic"})
  ELSE LET res == budget_select(blocks, config.max_input_tokens,
                                config.safety_margin_tokens,
                                Fractions(config.per_type_budget_fraction))
       IN Result(blocks \o res.selected, res.raised, {})

\* Stage 3. Semantic unavailable: skip to compression.
semantic_reduce(blocks, config, env) ==
  IF ~env.embedding_up THEN Result(blocks, FALSE, {"semantic"})
  ELSE LET res == budget_select(blocks, config.max_input_tokens,
                                config.safety_margin_tokens,
                                Fractions(config.per_type_budget_fraction))
       IN Result(res.selected, res.raised, {})

\* Stage 4. Compression unavailable: skip to validation.
compress_stage(blocks, config, env) ==
  IF env.compressor = "down" THEN Result(blocks, FALSE, {"compression"})
  ELSE Result(compress_blocks(blocks, env.compressor), FALSE, {})

\* The stage gate with the comparison against an empty prompt instead of
\* the budget.
over_budget_of_nothing(blocks, config) == total_tokens(blocks) > 0

over_budget(blocks, config) == total_tokens(blocks) > config.max_input_tokens

\* Fallback 2's rerun: keep-last-N with the widened N, then the selector and
\* the compressor under their usual conditions.
rerun_pipeline_with_config(blocks, config, env) ==
  LET b1 == keep_last_n_turns(blocks, config.keep_last_n_turns)
      s  == IF over_budget(b1, config) /\ config.enable_semantic_retrieval
            THEN semantic_reduce(b1, config, env) ELSE Result(b1, FALSE, {})
      c  == IF ~s.raised /\ over_budget(s.blocks, config) /\ config.enable_compression
            THEN compress_stage(s.blocks, config, env) ELSE Result(s.blocks, s.raised, {})
  IN Result(c.blocks, c.raised, s.degraded \cup c.degraded)

\* ------------------------------------------------------------ state
VARIABLES
  request,  \* the request every caller of a behaviour submits
  config0,  \* the resolved Config the callers pass: one object, read in place
  callers,  \* how many callers there are
  run,      \* per caller: where optimize() is and what it holds
  cache,    \* the exact cache: per key, the entry under it or NoEntry
  apiKey,         \* dashboard: the ApiKey table, per row id
  usageRecord,    \* dashboard: the UsageRecord table, in order of creation
  response,       \* dashboard: the last request served and its response
  clock,          \* dashboard: new Date()
  SHARED_SECRET,  \* dashboard: DASHBOARD_API_KEY || MIDDLEWARE_API_KEY || ''
  buffer,         \* TelemetryEmitter.buffer
  lock,           \* TelemetryEmitter.lock: the thread holding it, or "free"
  posts,          \* the requests.post attempts so far, in order
  thread,         \* per thread of the emitter: its position and locals
  emitted         \* how many events have been passed to emit

pipeline  == <<request, config0, callers, run, cache>>
dashboard == <<apiKey, usageRecord, response, clock, SHARED_SECRET>>
telemetry == <<buffer, lock, posts, thread, emitted>>

vars == <<request, config0, callers, run, cache,
          apiKey, usageRecord, response, clock, SHARED_SECRET,
          buffer, lock, posts, thread, emitted>>

\* The dashboard and the emitter while a behaviour is about the pipeline.
NoDashboard ==
  /\ apiKey = <<>> /\ usageRecord = <<>> /\ response = <<>>
  /\ clock = 0 /\ SHARED_SECRET = ""

NoTelemetry ==
  /\ buffer = <<>> /\ lock = "free" /\ posts = <<>>
  /\ thread = <<>> /\ emitted = 0

NoEntry == [present |-> FALSE, blocks |-> <<>>]

\* key = sha256(api_key + model + config_hash + input_hash). The callers of
\* a behaviour share the api key, the model and the request, so their keys
\* differ where their Configs do: in keep_last_n_turns, which each Fallback 2
\* raises by 2.
cache_key(config) == config.keep_last_n_turns

CacheKeys == 0..(1 + 2 * NumRuns)

\* The Configs a caller passes. The fraction table is read by the selector
\* alone, so it varies only where the selector is enabled.
Configs ==
  {c \in [max_input_tokens : {20, 70}, safety_margin_tokens : {2},
          keep_last_n_turns : {0, 1}, enable_caching : BOOLEAN,
          enable_semantic_retrieval : BOOLEAN, enable_compression : BOOLEAN,
          per_type_budget_fraction : {"chat", "user"},
          tools_enabled : {FALSE}, had_constraints : {FALSE},
          junk_regexes : {"default"}] :
     ~c.enable_semantic_retrieval => c.per_type_budget_fraction = "chat"}

UpEnv == [embedding_up |-> TRUE, compressor |-> "ok"]

\* The part of e that a rerun from these blocks calls on: a service that is
\* never called is left as UpEnv has it.
UsedEnv(blocks, config, e) ==
  LET b1 == keep_last_n_turns(blocks, config.keep_last_n_turns)
      sem == over_budget(b1, config) /\ config.enable_semantic_retrieval
      s  == IF sem THEN semantic_reduce(b1, config, e) ELSE Result(b1, FALSE, {})
      cmp == ~s.raised /\ over_budget(s.blocks, config) /\ config.enable_compression
  IN [embedding_up |-> IF sem THEN e.embedding_up ELSE TRUE,
      compressor   |-> IF cmp THEN e.compressor ELSE "ok"]

Idle ==
  [pc |-> "idle", blocks |-> <<>>, config |-> config0,
   env |-> UpEnv, env2 |-> UpEnv,
   stages |-> <<>>, fb |-> <<>>, cache_hit |-> FALSE, fallback_used |-> FALSE,
   degraded |-> {}, status |-> "running", stored |-> FALSE, after |-> {},
   given |-> config0, key |-> 0]

\* Scenario S1 runs with budget 1000 and its own junk pattern, the default
\* ones or those of test_junk_removal; scenario S5 with budget 30 and the
\* default stages, compression on and semantic retrieval off.
S1Configs ==
  {[c EXCEPT !.max_input_tokens = 1000, !.junk_regexes = j] :
     c \in {x \in Configs : x.max_input_tokens = 70},
     j \in {"default", "S1", "test"}}

S5Configs ==
  {[c EXCEPT !.max_input_tokens = 30] :
     c \in {x \in Configs : /\ x.max_input_tokens = 20 /\ x.enable_compression
                            /\ ~x.enable_semantic_retrieval}}

Init ==
  /\ \/ request \in Requests /\ config0 \in Configs
     \/ request = S1Request /\ config0 \in S1Configs
     \/ request = S5Request /\ config0 \in S5Configs
  /\ callers = 1
  /\ run = [r \in RunIds |-> Idle]
  /\ cache = [k \in CacheKeys |-> NoEntry]
  /\ NoDashboard /\ NoTelemetry

Set(r, rec) == run' = [run EXCEPT ![r] = rec]

Finished == {r \in RunIds : run[r].pc = "done"}

\* optimize(), stages 0 and 1: canonicalize, then the heuristics. The callers
\* are alike, so they are numbered in the order they arrive.
Start(r) ==
  /\ r <= callers
  /\ run[r].pc = "idle"
  /\ \A p \in RunIds : p < r => run[p].pc # "idle"
  /\ LET canon == fresh_ids(canonicalize(Messages(request)), r)
         b     == apply_heuristics(canon, config0)
     IN Set(r, [run[r] EXCEPT
            !.pc = "cache_check", !.blocks = b,
            !.config = [config0 EXCEPT !.had_constraints = HasType(b, "constraint")],
            !.stages = <<"canonicalize", "heuristics">>,
            !.after = Finished, !.given = config0])
  /\ UNCHANGED <<request, config0, callers, cache, dashboard, telemetry>>

\* The lookup under a key that no store has written: always a miss.
check_cache_wrong_key(entry, failed) ==
  [hit |-> FALSE, blocks |-> <<>>, raised |-> FALSE]

\* The lookup with no handler around the store: its error escapes.
check_cache_raises(entry, failed) ==
  IF failed THEN [hit |-> FALSE, blocks |-> <<>>, raised |-> TRUE]
  ELSE [hit |-> entry.present, blocks |-> entry.blocks, raised |-> FALSE]

\* check_cache / get_exact: the entry under the key if there is one. Redis
\* down: no caching, but optimization works, so an error is a miss.
check_cache(entry, failed) ==
  IF failed THEN [hit |-> FALSE, blocks |-> <<>>, raised |-> FALSE]
  ELSE [hit |-> entry.present, blocks |-> entry.blocks, raised |-> FALSE]

\* Stage 2: a hit returns the cached result at once.
CacheCheck(r) ==
  /\ run[r].pc = "cache_check"
  /\ IF ~run[r].config.enable_caching
     THEN Set(r, [run[r] EXCEPT !.pc = "semantic"])
     ELSE \E failed \in BOOLEAN :
            LET key  == cache_key(config0)
                got  == check_cache(cache[key], failed)
                seen == [run[r] EXCEPT !.stages = @ \o <<"cache_check">>,
                           !.key = key,
                           !.degraded = IF failed THEN @ \cup {"cache_get"} ELSE @]
            IN IF got.raised
               THEN Set(r, [seen EXCEPT !.pc = "done", !.status = "error"])
               ELSE IF got.hit
               THEN Set(r, [seen EXCEPT !.pc = "done", !.status = "ok",
                              !.blocks = got.blocks, !.cache_hit = TRUE])
               ELSE Set(r, [seen EXCEPT !.pc = "semantic"])
  /\ UNCHANGED <<request, config0, callers, cache, dashboard, telemetry>>

\* A stage's result applied to the run: an escaped exception ends the run.
Apply(r, e, res, stage, next) ==
  IF res.raised
  THEN Set(r, [run[r] EXCEPT !.pc = "done", !.status = "error", !.env = e,
                 !.stages = @ \o <<stage>>])
  ELSE Set(r, [run[r] EXCEPT !.pc = next, !.blocks = res.blocks, !.env = e,
                 !.degraded = @ \cup res.degraded,
                 !.stages = IF stage \in res.degraded THEN @ ELSE @ \o <<stage>>])

\* Stage 3: semantic reduction, if over budget and enabled.
Semantic(r) ==
  /\ run[r].pc = "semantic"
  /\ IF over_budget(run[r].blocks, run[r].config)
        /\ run[r].config.enable_semantic_retrieval
     THEN \E up \in BOOLEAN :
            LET e == [run[r].env EXCEPT !.embedding_up = up]
            IN Apply(r, e, semantic_reduce(run[r].blocks, run[r].config, e),
                     "semantic", "compress")
     ELSE Set(r, [run[r] EXCEPT !.pc = "compress"])
  /\ UNCHANGED <<request, config0, callers, cache, dashboard, telemetry>>

\* Stage 4: compression, if still over budget and enabled.
Compress(r) ==
  /\ run[r].pc = "compress"
  /\ IF over_budget(run[r].blocks, run[r].config) /\ run[r].config.enable_compression
     THEN \E c \in Compressors :
            LET e == [run[r].env EXCEPT !.compressor = c]
            IN Apply(r, e, compress_stage(run[r].blocks, run[r].config, e),
                     "compression", "validate")
     ELSE Set(r, [run[r] EXCEPT !.pc = "validate"])
  /\ UNCHANGED <<request, config0, callers, cache, dashboard, telemetry>>

\* After a validation: done if it passed, else the next fallback state.
Validated(r, rec, state, next) ==
  LET errors == validate(rec.blocks, rec.config)
      seen   == [rec EXCEPT !.fb = @ \o <<[state |-> state, errors |-> errors]>>,
                            !.fallback_used = state # "F0"]
  IN IF errors = {}
     THEN Set(r, [seen EXCEPT !.pc = "cache_put", !.status = "ok"])
     ELSE Set(r, [seen EXCEPT !.pc = next])

\* Stage 5, validate_and_fallback: the first validation.
Validate(r) ==
  /\ run[r].pc = "validate"
  /\ Validated(r, [run[r] EXCEPT !.stages = @ \o <<"validate">>], "F0", "F1")
  /\ UNCHANGED <<request, config0, callers, cache, dashboard, telemetry>>

\* apply_fallback, Fallback 1: disable compression, validate.
Fallback1(r) ==
  /\ run[r].pc = "F1"
  /\ Validated(r, [run[r] EXCEPT !.blocks = undo_compression(@)], "F1", "F2")
  /\ UNCHANGED <<request, config0, callers, cache, dashboard, telemetry>>

\* apply_fallback, Fallback 2: config["keep_last_n_turns"] += 2 on the Config
\* object itself, rerun, validate. The services may have come up or gone
\* down since the first pass; what the compressor makes of a content when it
\* answers has not changed.
Fallback2(r) ==
  /\ run[r].pc = "F2"
  /\ config0' = [config0 EXCEPT !.keep_last_n_turns = @ + 2]
  /\ \E e \in Envs :
       LET c2  == [run[r].config EXCEPT
                     !.keep_last_n_turns = config0.keep_last_n_turns + 2]
           res == rerun_pipeline_with_config(run[r].blocks, c2, e)
           answers == IF run[r].env.compressor = "down" THEN "ok"
                      ELSE run[r].env.compressor
       IN IF e # UsedEnv(run[r].blocks, c2, e) \/ e.compressor \notin {answers, "down"}
          THEN FALSE
          ELSE IF res.raised
          THEN Set(r, [run[r] EXCEPT !.pc = "done", !.status = "error",
                         !.config = c2, !.env2 = e,
                         !.fb = @ \o <<[state |-> "F2", errors |-> {"raised"}]>>])
          ELSE Validated(r, [run[r] EXCEPT !.config = c2, !.blocks = res.blocks,
                               !.env2 = e, !.degraded = @ \cup res.degraded],
                         "F2", "F3")
  /\ UNCHANGED <<request, callers, cache, dashboard, telemetry>>

\* apply_fallback, Fallback 3: the minimal safe prompt is returned as it is.
Fallback3(r) ==
  /\ run[r].pc = "F3"
  /\ LET safe == minimal_safe(run[r].blocks, run[r].config)
     IN Set(r, [run[r] EXCEPT !.pc = "cache_put", !.status = "ok", !.blocks = safe,
                  !.fallback_used = TRUE,
                  !.fb = @ \o <<[state |-> "F3", errors |-> validate(safe, run[r].config)]>>])
  /\ UNCHANGED <<request, config0, callers, cache, dashboard, telemetry>>

\* Stage 6: set_cached. An error of the store loses the entry, nothing else.
CachePut(r) ==
  /\ run[r].pc = "cache_put"
  /\ IF ~run[r].config.enable_caching
     THEN /\ Set(r, [run[r] EXCEPT !.pc = "done"])
          /\ UNCHANGED cache
     ELSE \E failed \in BOOLEAN :
            /\ Set(r, [run[r] EXCEPT !.pc = "done",
                         !.stages = @ \o <<"cache_put">>, !.stored = ~failed,
                         !.degraded = IF failed THEN @ \cup {"cache_put"} ELSE @])
            /\ cache' = IF failed THEN cache
                        ELSE [cache EXCEPT ![run[r].key] =
                                [present |-> TRUE, blocks |-> run[r].blocks]]
  /\ UNCHANGED <<request, config0, callers, dashboard, telemetry>>

Next ==
  \E r \in RunIds :
    \/ Start(r)
    \/ CacheCheck(r)
    \/ Semantic(r)
    \/ Compress(r)
    \/ Validate(r)
    \/ Fallback1(r)
    \/ Fallback2(r)
    \/ Fallback3(r)
    \/ CachePut(r)

Spec == Init /\ [][Next]_vars

\* Several callers with the same key, one after the other or at once, on
\* requests that go through the selector or need the fallback.
InitShared ==
  /\ request \in {q \in Requests : /\ q.sys = "SYS" /\ q.turns = 0
                                 /\ q.docs = MaxDocs /\ q.user # "JSON"}
  /\ config0 \in {c \in Configs : /\ c.enable_caching
                                   /\ c.max_input_tokens = 20
                                   /\ c.keep_last_n_turns = 0
                                   /\ c.enable_semantic_retrieval
                                   /\ ~c.enable_compression
                                   /\ c.per_type_budget_fraction = "chat"}
  /\ callers = NumRuns
  /\ run = [r \in RunIds |-> Idle]
  /\ cache = [k \in CacheKeys |-> NoEntry]
  /\ NoDashboard /\ NoTelemetry

SpecShared == InitShared /\ [][Next]_vars

\* Several callers, no cache, on a request over budget whose two documents
\* have the same utility and the same size, with room for one of them.
InitTwice ==
  /\ request \in {q \in Requests : /\ q.sys = "SYS" /\ q.turns = 1
                                 /\ q.docs = MaxDocs /\ q.user = "Q"}
  /\ config0 \in {c \in Configs : /\ ~c.enable_caching
                                   /\ c.max_input_tokens = 70
                                   /\ c.keep_last_n_turns = 0
                                   /\ c.enable_semantic_retrieval
                                   /\ ~c.enable_compression
                                   /\ c.per_type_budget_fraction = "user"}
  /\ callers = NumRuns
  /\ run = [r \in RunIds |-> Idle]
  /\ cache = [k \in CacheKeys |-> NoEntry]
  /\ NoDashboard /\ NoTelemetry

SpecTwice == InitTwice /\ [][Next]_vars

\* ------------------------------------------------------------ properties
Canonical == canonicalize(Messages(request))

Contents(blocks) == [i \in 1..Len(blocks) |-> blocks[i].content]

RECURSIVE IsSubseq(_, _)
IsSubseq(s, t) ==
  IF s = <<>> THEN TRUE
  ELSE IF t = <<>> THEN FALSE
  ELSE IF Head(s) = Head(t) THEN IsSubseq(Tail(s), Tail(t))
  ELSE IsSubseq(s, Tail(t))

\* The run has returned blocks to its caller.
Returned(r) == run[r].pc = "done" /\ run[r].status = "ok"

LastFb(r) == run[r].fb[Len(run[r].fb)]

\* optimize() with no cache in it: the stages after the heuristics and the
\* fallback chain, as one function of the request, the Config and what the
\* services do in the first pass (e) and in Fallback 2's rerun (e2).
optimize_messages(msgs, config, e, e2) ==
  LET h   == apply_heuristics(canonicalize(msgs), config)
      c0  == [config EXCEPT !.had_constraints = HasType(h, "constraint")]
      s   == IF total_tokens(h) > c0.max_input_tokens /\ c0.enable_semantic_retrieval
             THEN semantic_reduce(h, c0, e) ELSE Result(h, FALSE, {})
      c   == IF total_tokens(s.blocks) > c0.max_input_tokens /\ c0.enable_compression
             THEN compress_stage(s.blocks, c0, e) ELSE Result(s.blocks, FALSE, {})
      b1  == undo_compression(c.blocks)
      c2  == [c0 EXCEPT !.keep_last_n_turns = @ + 2]
      res == rerun_pipeline_with_config(b1, c2, e2)
      Ok(b) == [status |-> "ok", blocks |-> b]
      Err == [status |-> "error", blocks |-> <<>>]
  IN IF s.raised THEN Err
     ELSE IF validate(c.blocks, c0) = {} THEN Ok(c.blocks)
     ELSE IF validate(b1, c0) = {} THEN Ok(b1)
     ELSE IF res.raised THEN Err
     ELSE IF validate(res.blocks, c2) = {} THEN Ok(res.blocks)
     ELSE Ok(minimal_safe(res.blocks, c2))

optimize_uncached(req, config, e, e2) ==
  optimize_messages(Messages(req), config, e, e2)

\* Stage 6: the blocks as the messages handed back, one per block, in order.
blocks_to_messages(blocks) ==
  [i \in 1..Len(blocks) |->
     [role |-> blocks[i].type, content |-> blocks[i].content]]

\* C1: every block that is must_keep after canonicalization is in the blocks
\* a run returns, with identical content and in the same relative order.
C1_MustKeepVerbatim ==
  \A r \in RunIds :
    Returned(r) =>
      IsSubseq(Contents(SelectSeq(Canonical, LAMBDA b : b.must_keep)),
               Contents(run[r].blocks))

\* C2: the blocks a run returns without an error total at most the budget.
C2_WithinBudget ==
  \A r \in RunIds :
    Returned(r) => total_tokens(run[r].blocks) <= run[r].config.max_input_tokens

FbRank(state) ==
  CASE state = "F0" -> 0 [] state = "F1" -> 1 [] state = "F2" -> 2 [] OTHER -> 3

\* C3: the fallback states are entered forward only and not twice; from F0 a
\* budget failure leads to F1 and any other failure to F2, F1 leads to F2,
\* F2 to F3, and what F3 returns has passed a final validation.
C3_ForwardOnly ==
  \A r \in RunIds :
    LET f == run[r].fb
    IN /\ Len(f) <= 4
       /\ \A i, j \in DOMAIN f : i < j => FbRank(f[i].state) < FbRank(f[j].state)
       /\ \A i \in DOMAIN f :
            i < Len(f) =>
              f[i + 1].state =
                (CASE f[i].state = "F0" ->
                        (IF "budget" \in f[i].errors THEN "F1" ELSE "F2")
                   [] f[i].state = "F1" -> "F2"
                   [] OTHER -> "F3")
       /\ \A i \in DOMAIN f :
            f[i].state = "F3" /\ run[r].status = "ok" => f[i].errors = {}

\* C4: a run whose minimal safe prompt is still over the budget after
\* Fallback 3 ends in an error and returns no blocks.
C4_OverBudgetAfterF3Fails ==
  \A r \in RunIds :
    (/\ run[r].pc \in {"cache_put", "done"}
     /\ run[r].fb # <<>>
     /\ LastFb(r).state = "F3"
     /\ "budget" \in LastFb(r).errors)
    => run[r].status = "error"

\* C5: a run ends in an error only when a check other than the budget
\* check fails after Fallback 3.
C5_ErrorOnlyAfterF3 ==
  \A r \in RunIds :
    run[r].status = "error" =>
      /\ run[r].fb # <<>>
      /\ LastFb(r).state = "F3"
      /\ LastFb(r).errors \ {"budget"} # {}

PastCacheCheck ==
  {"semantic", "compress", "validate", "F1", "F2", "F3", "cache_put"}

\* C6: of the callers that share a key, at most one at a time is in the
\* stages after the cache check.
C6_SingleFlight ==
  \A r1, r2 \in RunIds :
    r1 # r2 => ~(run[r1].pc \in PastCacheCheck /\ run[r2].pc \in PastCacheCheck)

Anon(blocks) == [i \in 1..Len(blocks) |-> [blocks[i] EXCEPT !.id = 0]]

StageOrder ==
  <<"canonicalize", "heuristics", "cache_check", "semantic", "compression",
    "validate", "cache_put">>

MustKeepContents(blocks) == Contents(SelectSeq(blocks, LAMBDA b : b.must_keep))

\* C11: a block that is must_keep at one stage, the blocks marked by
\* keep_last_n_turns included, is in the block list of the next stage of the
\* run with the same content and in the same relative order, through the
\* fallback states too.
C11_MustKeepStaysPut ==
  [][\A r \in RunIds :
       (run[r].pc # "idle" /\ ~run'[r].cache_hit) =>
         IsSubseq(MustKeepContents(run[r].blocks), Contents(run'[r].blocks))]_vars

\* C12: the blocks of one kind are, at every stage and in the result, in the
\* order of the input, that is of their timestamps.
C12_KindOrder ==
  \A r \in RunIds :
    \A i, j \in DOMAIN run[r].blocks :
      (i < j /\ run[r].blocks[i].type = run[r].blocks[j].type) =>
        run[r].blocks[i].timestamp < run[r].blocks[j].timestamp

\* C13: a block is marked compressed only if its content is a faithful
\* rewriting of its original content with strictly fewer tokens.
C13_CompressedIsShorter ==
  \A r \in RunIds :
    \A b \in Range(run[r].blocks) :
      b.compressed =>
        /\ b.content.form \in {"lingua", "padded"}
        /\ b.content.text = b.original_content.text
        /\ count_tokens(b.content) < count_tokens(b.original_content)

\* The block list deduplicate is given, and the one the constraint block is
\* inserted into.
BeforeDedup(config) ==
  remove_junk(Canonical, junk_regexes(config.junk_regexes), config.keep_last_n_turns)

BeforeConstraints(config) ==
  keep_last_n_turns(compact_json(deduplicate(BeforeDedup(config))),
                    config.keep_last_n_turns)

\* C14: after deduplication exactly one block of every fingerprint is left,
\* the one with the greatest timestamp, and the blocks left are in their
\* original order.
C14_DedupKeepsLatest ==
  \A r \in RunIds :
    run[r].pc = "cache_check" =>
      LET b == BeforeDedup(run[r].given)
          d == deduplicate(b)
      IN /\ IsSubseq(d, b)
         /\ \A x \in Range(b) :
              /\ Cardinality({i \in DOMAIN d :
                    fingerprint(d[i].content) = fingerprint(x.content)}) = 1
              /\ \A y \in Range(d) :
                   fingerprint(y.content) = fingerprint(x.content) =>
                     x.timestamp <= y.timestamp

C14_Witness ==
  \E r \in RunIds :
    /\ run[r].pc = "cache_check"
    /\ Len(deduplicate(BeforeDedup(run[r].given))) < Len(BeforeDedup(run[r].given))

\* C17 as stated: with compression off and no cache hit, a run with the
\* semantic stage enabled returns no more tokens than the run of the same
\* input with it disabled.
C17_SemanticRunNoLarger ==
  \A r \in RunIds :
    (/\ Returned(r)
     /\ ~run[r].cache_hit
     /\ run[r].config.enable_semantic_retrieval
     /\ ~run[r].config.enable_compression)
    => LET off == optimize_uncached(request,
                    [run[r].given EXCEPT !.enable_semantic_retrieval = FALSE],
                    UpEnv, UpEnv)
       IN off.status = "ok" => total_tokens(run[r].blocks) <= total_tokens(off.blocks)

\* C17 amended: the semantic stage itself never increases the token count:
\* the blocks it returns are blocks it was given, each once, and total no
\* more than them.
C17_SelectionNeverIncreases ==
  \A r \in RunIds :
    (run[r].pc = "compress" /\ "semantic" \in Range(run[r].stages)) =>
      LET h == apply_heuristics(Canonical, run[r].given)
      IN /\ total_tokens(run[r].blocks) <= total_tokens(h)
         /\ Range(run[r].blocks) \subseteq Range(h)
         /\ Cardinality(Range(run[r].blocks)) = Len(run[r].blocks)

C17_Witness ==
  \E r \in RunIds :
    /\ run[r].pc = "compress"
    /\ "semantic" \in Range(run[r].stages)
    /\ ~run[r].config.enable_compression
    /\ Len(run[r].blocks) < Len(apply_heuristics(Canonical, run[r].given))
    /\ \E b \in Range(run[r].blocks) : ~b.must_keep

\* C19: a request with no system message that is within the budget and has a
\* user message passes the first validation and returns without fallback.
C19_NoSystemPasses ==
  \A r \in RunIds :
    (/\ request.sys = "none"
     /\ run[r].fb # <<>>
     /\ run[r].fb[1].errors \cap {"user", "constraints", "tools", "budget"} = {})
    => /\ run[r].fb[1].errors = {}
       /\ ~run[r].fallback_used

C18_ConfigNotModified == [][config0' = config0]_vars

\* What two runs' blocks are compared by: kind and content, in order (ids
\* and timestamps are assigned per run).
Shape(blocks) == [i \in 1..Len(blocks) |-> <<blocks[i].type, blocks[i].content>>]

\* tokens_before <= budget - safety_margin, and no junk, dedup or JSON
\* heuristic can fire on the request (it has no logs and no tools).
UnderBudgetAndQuiet(config) ==
  /\ total_tokens(Canonical) <= config.max_input_tokens - config.safety_margin_tokens
  /\ \A b \in Range(Canonical) : ~IsJunk(b.content) /\ ~IsJsonArray(b.content)
  /\ \A i, j \in DOMAIN Canonical :
       i # j => fingerprint(Canonical[i].content) # fingerprint(Canonical[j].content)

\* The pipeline run once more, on the messages a run returned, with the
\* Config as the caller holds it then.
RunAgain(r) ==
  optimize_messages(blocks_to_messages(run[r].blocks), config0, UpEnv, UpEnv)

\* C16: a request under budget by the safety margin on which no junk, dedup,
\* log, JSON or tool heuristic can fire is a fixed point after one run: the
\* pipeline run on its own output returns the same blocks.
C16_Idempotent ==
  \A r \in RunIds :
    (Returned(r) /\ ~run[r].cache_hit /\ UnderBudgetAndQuiet(run[r].given))
    => /\ RunAgain(r).status = "ok"
       /\ Shape(RunAgain(r).blocks) = Shape(run[r].blocks)

\* No directive to extract either: no system, developer or user message of
\* the request holds a constraint keyword.
NoKeywords ==
  \A b \in Range(Canonical) :
    b.type \in {"system", "developer", "user"} => ~HasKeywords(b.content)

\* C16, amended: the same with constraint extraction unable to fire as well.
C16_IdempotentWithoutConstraints ==
  \A r \in RunIds :
    (Returned(r) /\ ~run[r].cache_hit /\ UnderBudgetAndQuiet(run[r].given)
       /\ NoKeywords)
    => /\ RunAgain(r).status = "ok"
       /\ Shape(RunAgain(r).blocks) = Shape(run[r].blocks)

C16_Witness ==
  \E r \in RunIds :
    /\ Returned(r) /\ ~run[r].cache_hit /\ UnderBudgetAndQuiet(run[r].given)
    /\ NoKeywords
    /\ request.sys = "SYS" /\ request.turns = 1 /\ run[r].given.keep_last_n_turns = 1
    /\ Len(run[r].blocks) = 4

Selected(r) ==
  /\ run[r].pc = "compress"
  /\ "semantic" \in Range(run[r].stages)
  /\ "semantic" \notin run[r].degraded

\* C23: budget_select returns every must_keep block of its input, and the
\* blocks it returns never total more than max_tokens.
C23_SelectionWithinMax ==
  \A r \in RunIds :
    Selected(r) =>
      LET h == apply_heuristics(fresh_ids(Canonical, r), run[r].given)
      IN /\ \A b \in Range(h) : b.must_keep => b \in Range(run[r].blocks)
         /\ total_tokens(run[r].blocks) <= run[r].given.max_input_tokens

\* C23, amended: every must_keep block is returned; the other blocks returned
\* stay, kind by kind, within the kind's share of what max_tokens less the
\* safety margin leaves after the must_keep blocks; so the total is within
\* max_tokens less the margin whenever the must_keep blocks alone are.
C23_SelectionWithinShares ==
  \A r \in RunIds :
    Selected(r) =>
      LET h  == apply_heuristics(fresh_ids(Canonical, r), run[r].given)
          c  == run[r].given
          mk == SelectSeq(h, LAMBDA b : b.must_keep)
          budget == c.max_input_tokens - c.safety_margin_tokens - total_tokens(mk)
          fr == Fractions(c.per_type_budget_fraction)
          Of(t) == SelectSeq(run[r].blocks, LAMBDA b : ~b.must_keep /\ b.type = t)
      IN /\ \A b \in Range(h) : b.must_keep => b \in Range(run[r].blocks)
         /\ \A b \in Range(run[r].blocks) : ~b.must_keep => b.type \in DOMAIN fr
         /\ \A t \in DOMAIN fr :
              Of(t) # <<>> => 10 * total_tokens(Of(t)) <= budget * fr[t]
         /\ budget >= 0 =>
              total_tokens(run[r].blocks) <= c.max_input_tokens - c.safety_margin_tokens

\* A selection that took one of two documents and left the other.
C23_Witness ==
  \E r \in RunIds :
    /\ Selected(r)
    /\ Txt("DOC1") \in Range(Contents(run[r].blocks))
    /\ Txt("DOC2") \notin Range(Contents(run[r].blocks))
    /\ Len(SelectSeq(run[r].blocks, LAMBDA b : b.must_keep)) >= 2

\* C29: undoing compression in Fallback 1 never lowers the total token
\* count, and a run whose first validation failed on the budget fails
\* Fallback 1's validation too and goes on to Fallback 2.
C29_UndoNeverLowers ==
  [][\A r \in RunIds :
       (run[r].pc = "F1" /\ run'[r].pc # "F1") =>
         /\ total_tokens(run'[r].blocks) >= total_tokens(run[r].blocks)
         /\ "budget" \in run[r].fb[1].errors => run'[r].pc = "F2"]_vars

\* C30: a run that returns blocks returns no more tokens than it was given.
C30_NeverLarger ==
  \A r \in RunIds :
    (Returned(r) /\ ~run[r].cache_hit) =>
      total_tokens(run[r].blocks) <= total_tokens(Canonical)

\* ------------------------------------------------------------ scenarios
Texts(blocks) == [i \in 1..Len(blocks) |-> blocks[i].content.text]

EnteredFallback(r, state) == \E i \in 1..Len(run[r].fb) : run[r].fb[i].state = state

\* C22: in scenario S5, a run whose compressor gave no accepted candidate
\* goes through Fallback 2 and Fallback 3 and returns, with fallback_used
\* set, a prompt that has the system block.
C22_S5Recovered ==
  \A r \in RunIds :
    (/\ request = S5Request /\ run[r].pc = "done" /\ ~run[r].cache_hit
     /\ run[r].env.compressor \in {"low", "down"})
    => /\ run[r].status = "ok" /\ run[r].fallback_used
       /\ EnteredFallback(r, "F2") /\ EnteredFallback(r, "F3")
       /\ \E b \in Range(run[r].blocks) :
            b.type = "system" /\ b.content.text = "S5 system"

C22_Witness ==
  \E r \in RunIds :
    /\ request = S5Request /\ run[r].pc = "done" /\ run[r].env.compressor = "low"
    /\ run[r].fallback_used /\ Texts(run[r].blocks) = <<"S5 system">>

\* C21: the run of scenario S1 with the junk pattern ^(Sure|Of course)\.
\* returns exactly the system block, one "Hello" and "What is Python?",
\* through the heuristics alone and with fallback_used unset.
C21_S1ThreeBlocks ==
  \A r \in RunIds :
    (/\ request = S1Request /\ run[r].given.junk_regexes = "S1"
     /\ Returned(r) /\ ~run[r].cache_hit)
    => /\ Texts(run[r].blocks) = <<"You are helpful.", "Hello", "What is Python?">>
       /\ ~run[r].fallback_used
       /\ "semantic" \notin Range(run[r].stages)
       /\ "compression" \notin Range(run[r].stages)

\* ------------------------------------------------------------ dashboard
\* The dashboard's API key routes and its event ingestion, over the ApiKey
\* and UsageRecord tables.
MaxKeys  == 2   \* rows of ApiKey
MaxNow   == 1   \* the clock runs from 0 to MaxNow
MaxUsage == 1   \* rows of UsageRecord

KeyIds   == 1..MaxKeys
Users    == {"u1", "u2"}
Sessions == Users \cup {"none"}
Null     == -1

\* generateApiKey for row k: tok_ and a random part. Two keys can share the
\* twelve characters of their prefix, not the whole string.
generateApiKey(k) == <<"tok_", (k + 1) \div 2, k>>

\* getKeyPrefix: key.slice(0, 12).
getKeyPrefix(key) == SubSeq(key, 1, 2)

\* hashApiKey: bcrypt.hash(key, BCRYPT_SALT_ROUNDS).
hashApiKey(key) == <<"$2b$10$">> \o key

\* verifyApiKey: bcrypt.compare(key, hash).
verifyApiKey(key, hash) == hash = hashApiKey(key)

KeyStrings == {generateApiKey(k) : k \in KeyIds}
Prefixes   == {getKeyPrefix(key) : key \in KeyStrings}
Headers    == {"none", "", "s3cret", "wrong"}

NoRow ==
  [exists |-> FALSE, userId |-> "none", keyHash |-> <<>>, keyPrefix |-> <<>>,
   expiresAt |-> Null, isActive |-> FALSE]

\* What a request carries: the session user, the key id of the path or body,
\* the apiKey of the body, the x-api-key header and api_key_prefix.
Req(session, keyId, key, header, prefix) ==
  [session |-> session, keyId |-> keyId, apiKey |-> key, header |-> header,
   api_key_prefix |-> prefix]

Response(op, status, req, valid, id) ==
  [op |-> op, status |-> status, req |-> req, valid |-> valid, apiKeyId |-> id]

NoResponse == Response("none", 0, Req("none", 0, <<>>, "none", <<>>), FALSE, 0)

\* POST /api/keys: a new active row for the session user.
CreateKey ==
  /\ \E s \in Sessions, e \in {Null} \cup 0..MaxNow :
       IF s = "none"
       THEN /\ response' = Response("POST /api/keys", 401,
                                    Req(s, 0, <<>>, "none", <<>>), FALSE, 0)
            /\ UNCHANGED apiKey
       ELSE \E k \in KeyIds :
              /\ ~apiKey[k].exists
              /\ apiKey' = [apiKey EXCEPT ![k] =
                   [exists |-> TRUE, userId |-> s,
                    keyHash |-> hashApiKey(generateApiKey(k)),
                    keyPrefix |-> getKeyPrefix(generateApiKey(k)),
                    expiresAt |-> e, isActive |-> TRUE]]
              /\ response' = Response("POST /api/keys", 200,
                                      Req(s, k, generateApiKey(k), "none", <<>>), FALSE, k)
  /\ UNCHANGED <<usageRecord, clock, SHARED_SECRET, pipeline, telemetry>>

\* An ownership check that every session passes.
allows_anyone(row, session) == TRUE

\* key.userId !== session.user.id
owns(row, session) == row.userId = session

\* DELETE /api/keys/[id]: the soft delete.
DeleteKey ==
  /\ \E s \in Sessions, k \in KeyIds :
       LET req == Req(s, k, <<>>, "none", <<>>)
           op  == "DELETE /api/keys/[id]"
       IN IF s = "none"
          THEN response' = Response(op, 401, req, FALSE, 0) /\ UNCHANGED apiKey
          ELSE \E db_up \in BOOLEAN :
            IF ~db_up
            THEN response' = Response(op, 500, req, FALSE, 0) /\ UNCHANGED apiKey
            ELSE IF ~apiKey[k].exists
            THEN response' = Response(op, 404, req, FALSE, 0) /\ UNCHANGED apiKey
            ELSE IF ~owns(apiKey[k], s)
            THEN response' = Response(op, 403, req, FALSE, 0) /\ UNCHANGED apiKey
            ELSE /\ apiKey' = [apiKey EXCEPT ![k].isActive = FALSE]
                 /\ response' = Response(op, 204, req, FALSE, 0)
  /\ UNCHANGED <<usageRecord, clock, SHARED_SECRET, pipeline, telemetry>>

\* Every row with the prefix, active or not.
candidates_any(rows, keyPrefix) ==
  {k \in DOMAIN rows : rows[k].exists /\ rows[k].keyPrefix = keyPrefix}

\* findMany({ where: { keyPrefix, isActive: true } })
candidates(rows, keyPrefix) ==
  {k \in DOMAIN rows : /\ rows[k].exists /\ rows[k].keyPrefix = keyPrefix
                       /\ rows[k].isActive}

\* POST /api/keys/validate: the first candidate whose hash matches.
ValidateKey ==
  /\ \E key \in KeyStrings \cup {<<>>} :
       LET req == Req("none", 0, key, "none", <<>>)
           op  == "POST /api/keys/validate"
           matching == {k \in candidates(apiKey, getKeyPrefix(key)) :
                          verifyApiKey(key, apiKey[k].keyHash)}
       IN IF key = <<>>
          THEN response' = Response(op, 400, req, FALSE, 0)
          ELSE IF matching # {}
          THEN \E k \in matching : response' = Response(op, 200, req, TRUE, k)
          ELSE response' = Response(op, 401, req, FALSE, 0)
  /\ UNCHANGED <<apiKey, usageRecord, clock, SHARED_SECRET, pipeline, telemetry>>

\* POST of the playground test: the key is looked up by id, must be active,
\* the session user's, and match the apiKey given; then the backend is called.
PlaygroundTest ==
  /\ \E s \in Sessions, id \in KeyIds \cup {0}, key \in KeyStrings \cup {<<>>},
        backend_up \in BOOLEAN :
       LET req == Req(s, id, key, "none", <<>>)
           op  == "POST playground test"
           status ==
             IF s = "none" THEN 401
             ELSE IF id = 0 \/ key = <<>> THEN 400
             ELSE IF ~apiKey[id].exists \/ ~apiKey[id].isActive THEN 400
             ELSE IF apiKey[id].userId # s THEN 403
             ELSE IF ~verifyApiKey(key, apiKey[id].keyHash) THEN 401
             ELSE IF ~backend_up THEN 500
             ELSE 200
       IN response' = Response(op, status, req, FALSE, IF status = 200 THEN id ELSE 0)
  /\ UNCHANGED <<apiKey, usageRecord, clock, SHARED_SECRET, pipeline, telemetry>>

\* A check of the header that lets an empty secret through.
secret_equal(secret, header) == header = secret

\* The negation of !SHARED_SECRET || secret !== SHARED_SECRET.
secret_ok(secret, header) == secret # "" /\ header = secret

\* POST /api/v1/events: one usage record for an active key with the prefix.
PostEvent ==
  /\ \E header \in Headers, prefix \in Prefixes \cup {<<>>}, db_up \in BOOLEAN :
       LET req == Req("none", 0, <<>>, header, prefix)
           op  == "POST /api/v1/events"
           found == {k \in KeyIds : /\ apiKey[k].exists /\ apiKey[k].keyPrefix = prefix
                                    /\ apiKey[k].isActive}
       IN IF ~secret_ok(SHARED_SECRET, header)
          THEN response' = Response(op, 401, req, FALSE, 0) /\ UNCHANGED usageRecord
          ELSE IF prefix = <<>>
          THEN response' = Response(op, 400, req, FALSE, 0) /\ UNCHANGED usageRecord
          ELSE IF ~db_up
          THEN response' = Response(op, 500, req, FALSE, 0) /\ UNCHANGED usageRecord
          ELSE IF found = {}
          THEN response' = Response(op, 404, req, FALSE, 0) /\ UNCHANGED usageRecord
          ELSE \E k \in found :
                 /\ Len(usageRecord) < MaxUsage
                 /\ usageRecord' = Append(usageRecord,
                                          [userId |-> apiKey[k].userId, apiKeyId |-> k])
                 /\ response' = Response(op, 200, req, FALSE, k)
  /\ UNCHANGED <<apiKey, clock, SHARED_SECRET, pipeline, telemetry>>

\* Time passes.
Tick ==
  /\ clock < MaxNow
  /\ clock' = clock + 1
  /\ UNCHANGED <<apiKey, usageRecord, response, SHARED_SECRET, pipeline, telemetry>>

InitDashboard ==
  /\ request = S5Request /\ config0 \in {c \in S5Configs : ~c.enable_caching /\ c.keep_last_n_turns = 0}
  /\ callers = 0
  /\ run = [r \in RunIds |-> Idle]
  /\ cache = [k \in CacheKeys |-> NoEntry]
  /\ NoTelemetry
  /\ apiKey = [k \in KeyIds |-> NoRow]
  /\ usageRecord = <<>>
  /\ response = NoResponse
  /\ clock = 0
  /\ SHARED_SECRET \in {"", "s3cret"}

NextDashboard ==
  \/ CreateKey
  \/ DeleteKey
  \/ ValidateKey
  \/ PlaygroundTest
  \/ PostEvent
  \/ Tick

SpecDashboard == InitDashboard /\ [][NextDashboard]_vars

\* C24: once the owner's DELETE has answered 204 the key is inactive, no
\* step makes an inactive key active again, and neither the validation
\* route nor the playground test accepts a key whose row is inactive.
C24_RevokedStaysRevoked ==
  /\ [](/\ (response.op = "DELETE /api/keys/[id]" /\ response.status = 204)
            => ~apiKey[response.req.keyId].isActive
        /\ (response.op = "POST /api/keys/validate" /\ response.valid)
            => \A k \in KeyIds :
                 (apiKey[k].exists /\ verifyApiKey(response.req.apiKey, apiKey[k].keyHash))
                 => apiKey[k].isActive
        /\ (response.op = "POST playground test" /\ response.status = 200)
            => apiKey[response.req.keyId].isActive)
  /\ [][\A k \in KeyIds :
          (apiKey[k].exists /\ ~apiKey[k].isActive)
          => (apiKey'[k].exists /\ ~apiKey'[k].isActive)]_vars

C24_Witness ==
  /\ response.op = "POST /api/keys/validate" /\ response.status = 401
  /\ \E k \in KeyIds :
       /\ apiKey[k].exists /\ ~apiKey[k].isActive
       /\ verifyApiKey(response.req.apiKey, apiKey[k].keyHash)

\* C25: the validation route answers valid:true only for a key that is
\* active and has no expiry or one in the future.
C25_ExpiredNeverValid ==
  (response.op = "POST /api/keys/validate" /\ response.valid)
  => LET row == apiKey[response.apiKeyId]
     IN row.isActive /\ (row.expiresAt = Null \/ row.expiresAt > clock)

\* C26: a step adds a usage record only as the answer 200 of the events
\* route to a header equal to the non-empty shared secret and a prefix of an
\* active key, whose record it is; a request answered 401, 400 or 404 leaves
\* the usage records as they were.
C26_EventsGuarded ==
  [][/\ usageRecord' # usageRecord
        => /\ response'.op = "POST /api/v1/events" /\ response'.status = 200
           /\ SHARED_SECRET # "" /\ response'.req.header = SHARED_SECRET
           /\ \E k \in KeyIds :
                /\ apiKey[k].exists /\ apiKey[k].isActive
                /\ apiKey[k].keyPrefix = response'.req.api_key_prefix
                /\ usageRecord' = Append(usageRecord,
                                         [userId |-> apiKey[k].userId, apiKeyId |-> k])
     /\ (response'.op = "POST /api/v1/events" /\ response'.status \in {400, 401, 404})
        => usageRecord' = usageRecord]_vars

C26_Witness ==
  /\ usageRecord # <<>>
  /\ response.op = "POST /api/v1/events" /\ response.status = 401
  /\ response.req.header = "wrong"

\* C27: a DELETE answered 401, 404 or 403 leaves every row as it was; one
\* answered 204 was made by the owner of the key and changes nothing but the
\* isActive flag of that key.
C27_DeleteOnlyByOwner ==
  [][response'.op = "DELETE /api/keys/[id]"
     => IF response'.status = 204
        THEN /\ apiKey[response'.req.keyId].exists
             /\ apiKey[response'.req.keyId].userId = response'.req.session
             /\ apiKey' = [apiKey EXCEPT ![response'.req.keyId].isActive = FALSE]
        ELSE apiKey' = apiKey]_vars

C27_Witness ==
  /\ response.op = "DELETE /api/keys/[id]" /\ response.status = 403
  /\ \E k, j \in KeyIds :
       /\ k # j /\ apiKey[k].exists /\ ~apiKey[k].isActive
       /\ apiKey[j].exists /\ apiKey[j].isActive /\ apiKey[j].userId # apiKey[k].userId

\* ------------------------------------------------------------ telemetry
\* TelemetryEmitter: the threads that call emit, the background flush
\* thread and the thread that calls shutdown, each step by step.
MaxEvents  == 3   \* emit is called at most this often
batch_size == 2

Emitters    == {"e1", "e2"}
FlushThread == "flush"
MainThread  == "main"
Threads     == Emitters \cup {FlushThread, MainThread}
Events      == 1..MaxEvents

Local(pc, event, events_to_send) ==
  [pc |-> pc, event |-> event, events_to_send |-> events_to_send]

Goto(t, pc) == thread' = [thread EXCEPT ![t].pc = pc]

\* A lock that anyone can take at any time.
acquire_unlocked(holder) == TRUE

\* with self.lock: the lock is free.
may_acquire(holder) == holder = "free"

\* emit(event) is called with the next event.
EmitCall(t) ==
  /\ t \in Emitters /\ thread[t].pc = "idle"
  /\ emitted < MaxEvents
  /\ emitted' = emitted + 1
  /\ thread' = [thread EXCEPT ![t] = Local("acquire", emitted + 1, <<>>)]
  /\ UNCHANGED <<buffer, lock, posts, pipeline, dashboard>>

\* time.sleep(self.flush_interval) of _flush_loop is over.
FlushWake ==
  /\ thread[FlushThread].pc = "sleep"
  /\ Goto(FlushThread, "acquire")
  /\ UNCHANGED <<buffer, lock, posts, emitted, pipeline, dashboard>>

\* shutdown() is called.
ShutdownCall ==
  /\ thread[MainThread].pc = "idle"
  /\ Goto(MainThread, "acquire")
  /\ UNCHANGED <<buffer, lock, posts, emitted, pipeline, dashboard>>

\* with self.lock, entered.
Acquire(t) ==
  /\ thread[t].pc = "acquire"
  /\ may_acquire(lock)
  /\ lock' = t
  /\ Goto(t, IF t \in Emitters THEN "append" ELSE "copy")
  /\ UNCHANGED <<buffer, posts, emitted, pipeline, dashboard>>

\* emit: self.buffer.append(event), then the test of the batch size.
BufferAppend(t) ==
  /\ thread[t].pc = "append"
  /\ buffer' = Append(buffer, thread[t].event)
  /\ Goto(t, IF Len(buffer) + 1 >= batch_size THEN "copy" ELSE "release")
  /\ UNCHANGED <<lock, posts, emitted, pipeline, dashboard>>

\* _flush: return if the buffer is empty, else events_to_send = buffer.copy().
FlushCopy(t) ==
  /\ thread[t].pc = "copy"
  /\ IF buffer = <<>>
     THEN Goto(t, "release")
     ELSE thread' = [thread EXCEPT ![t].pc = "clear", ![t].events_to_send = buffer]
  /\ UNCHANGED <<buffer, lock, posts, emitted, pipeline, dashboard>>

\* _flush: self.buffer.clear().
FlushClear(t) ==
  /\ thread[t].pc = "clear"
  /\ buffer' = <<>>
  /\ Goto(t, "post")
  /\ UNCHANGED <<lock, posts, emitted, pipeline, dashboard>>

\* _flush: requests.post of the batch; a failure is logged and swallowed.
FlushPost(t) ==
  /\ thread[t].pc = "post"
  /\ \E ok \in BOOLEAN :
       posts' = Append(posts, [events |-> thread[t].events_to_send, by |-> t, ok |-> ok])
  /\ thread' = [thread EXCEPT ![t].pc = "release", ![t].events_to_send = <<>>]
  /\ UNCHANGED <<buffer, lock, emitted, pipeline, dashboard>>

\* The with block is left: emit and shutdown return, the loop sleeps again.
Release(t) ==
  /\ thread[t].pc = "release"
  /\ lock' = IF lock = t THEN "free" ELSE lock
  /\ thread' = [thread EXCEPT ![t] =
       Local(IF t \in Emitters THEN "idle"
             ELSE IF t = FlushThread THEN "sleep" ELSE "done", 0, <<>>)]
  /\ UNCHANGED <<buffer, posts, emitted, pipeline, dashboard>>

\* A thread that holds the lock goes on.
Continue(t) ==
  \/ BufferAppend(t)
  \/ FlushCopy(t)
  \/ FlushClear(t)
  \/ FlushPost(t)
  \/ Release(t)

InitTelemetry ==
  /\ request = S5Request /\ config0 \in {c \in S5Configs : ~c.enable_caching /\ c.keep_last_n_turns = 0}
  /\ callers = 0
  /\ run = [r \in RunIds |-> Idle]
  /\ cache = [k \in CacheKeys |-> NoEntry]
  /\ NoDashboard
  /\ buffer = <<>> /\ lock = "free" /\ posts = <<>> /\ emitted = 0
  /\ thread = [t \in Threads |->
                 Local(IF t = FlushThread THEN "sleep" ELSE "idle", 0, <<>>)]

NextTelemetry ==
  \/ \E t \in Emitters : EmitCall(t)
  \/ FlushWake
  \/ ShutdownCall
  \/ \E t \in Threads : Acquire(t)
  \/ \E t \in Threads : Continue(t)

\* The flush thread wakes up again and again, no thread stops for ever in
\* the middle of a call, and a thread waiting for the lock gets it: the lock
\* is free while the flush thread sleeps.
SpecTelemetry ==
  /\ InitTelemetry /\ [][NextTelemetry]_vars
  /\ WF_vars(FlushWake)
  /\ \A t \in Threads : WF_vars(Continue(t)) /\ SF_vars(Acquire(t))

AttemptsOf(e) == {i \in 1..Len(posts) : e \in Range(posts[i].events)}

====
